---- MODULE Spec2Model ----
(***************************************************************************)
(* A model of the MDP planner (src/planner.py) and of the gridworld        *)
(* encoder (src/encoder.py).                                               *)
(*                                                                         *)
(* Numbers.  Every real number of the planner is an exact rational         *)
(* <<n, d>> with d > 0 in lowest terms.  The MDP files drawn by Init use   *)
(* probabilities 1/2 and 1 and discounts 1/2 and 1 only, which binary      *)
(* floating point holds exactly, so a zero pivot of numpy's LU             *)
(* factorisation is the determinant being 0.  In a file a probability and  *)
(* the discount are written in halves (1 stands for 0.5, 2 for 1.0).       *)
(* The encoder's probabilities are written in tenths.                      *)
(***************************************************************************)
EXTENDS Integers, Sequences, FiniteSets, TLC

VARIABLES
    file,      \* the MDP file given with --mdp
    args,      \* the command line
    pc,        \* where the planner is
    mdp,       \* what parse_mdp returned
    policy,    \* the policy being improved, recovered or evaluated
    V,         \* the solver's latest value function
    Vprev,     \* Howard's iteration: the values of the Evaluate phase before
    improved,  \* Howard's iteration: an Improve pass has been made
    tried,     \* Howard's iteration: the policies evaluated so far
    calls,     \* the solvers called so far, in order
    iters,     \* completed passes of the iterative evaluator
    out,       \* the lines printed
    grid,      \* the encoder's grid
    text       \* the MDP text the encoder emitted

vars == <<file, args, pc, mdp, policy, V, Vprev, improved, tried, calls,
          iters, out, grid, text>>

\* ------------------------------------------------------------------------
\* Bounds of the model
\* ------------------------------------------------------------------------

\* States of an MDP file: 0 .. NumStates-1.
NumStates == 2

\* Rewards of an MDP file: -1 .. -MaxCost.
MaxCost == 2

\* Sweeps of the iterative evaluator's loop the model follows.
MaxIter == 5

\* Grids of the encoder: at most MaxRows x MaxCols, of at most MaxCells cells.
MaxRows == 2
MaxCols == 4
MaxCells == 4

\* ------------------------------------------------------------------------
\* Rational arithmetic
\* ------------------------------------------------------------------------

Abs(x) == IF x < 0 THEN -x ELSE x

RECURSIVE Gcd(_, _)
Gcd(a, b) == IF b = 0 THEN a ELSE Gcd(b, a % b)

Rat(n, d) ==
    LET g == Gcd(Abs(n), Abs(d))
        sgn == IF d < 0 THEN -1 ELSE 1
    IN  <<sgn * (n \div g), sgn * (d \div g)>>

Zero == <<0, 1>>
RInt(n) == <<n, 1>>
RAdd(x, y) == Rat(x[1] * y[2] + y[1] * x[2], x[2] * y[2])
RSub(x, y) == Rat(x[1] * y[2] - y[1] * x[2], x[2] * y[2])
RMul(x, y) == Rat(x[1] * y[1], x[2] * y[2])
RLess(x, y) == x[1] * y[2] < y[1] * x[2]
RLeq(x, y) == x[1] * y[2] <= y[1] * x[2]
RAbs(x) == <<Abs(x[1]), x[2]>>
RDiv(x, y) == Rat(x[1] * y[2], x[2] * y[1])

\* The sum of f[i] over the sequence of indices idx.
RECURSIVE RSum(_, _)
RSum(f, idx) ==
    IF idx = <<>> THEN Zero ELSE RAdd(f[Head(idx)], RSum(f, Tail(idx)))

\* 0 .. n-1 as a sequence, Python's range(n).
Range(n) == [i \in 1..n |-> i - 1]

\* ------------------------------------------------------------------------
\* Dense linear systems (numpy.linalg.solve), by Cramer's rule
\* ------------------------------------------------------------------------

\* The sequence cs without its j-th element.
Drop(cs, j) == [i \in 1..(Len(cs) - 1) |-> IF i < j THEN cs[i] ELSE cs[i + 1]]

RECURSIVE Det(_, _, _)
RECURSIVE DetRow(_, _, _, _)
\* Laplace expansion along the first row of rs, over the columns cs.
Det(M, rs, cs) == IF rs = <<>> THEN RInt(1) ELSE DetRow(M, rs, cs, 1)
DetRow(M, rs, cs, j) ==
    IF j > Len(cs) THEN Zero
    ELSE LET e == M[Head(rs)][cs[j]]
             minor == IF e = Zero THEN Zero
                      ELSE RMul(e, Det(M, Tail(rs), Drop(cs, j)))
             term == IF j % 2 = 1 THEN minor ELSE RSub(Zero, minor)
         IN  RAdd(term, DetRow(M, rs, cs, j + 1))

\* numpy.linalg.solve(M, b) for an n x n system: LinAlgError (singular) when the
\* determinant is 0, the solution otherwise.
Solve(M, b, n) ==
    LET idx == Range(n)
        D == Det(M, idx, idx)
        Col(s) == [i \in 0..(n - 1) |->
                     [j \in 0..(n - 1) |-> IF j = s THEN b[i] ELSE M[i][j]]]
    IN  IF D = Zero
        THEN [singular |-> TRUE, V |-> <<>>]
        ELSE [singular |-> FALSE,
              V |-> [s \in 0..(n - 1) |-> RDiv(Det(Col(s), idx, idx), D)]]

\* ------------------------------------------------------------------------
\* MDP files and parse_mdp
\* ------------------------------------------------------------------------

\* Python's None.
None == <<>>

\* The header keywords a file may lack.
Keywords == {"numStates", "numActions", "discount"}

\* The transitions dictionary built from the transition lines
\* <<s1, a, s2, r, p>> (p in halves), each appended to its key's list in file order.
Triples(lines, k) ==
    LET mine == SelectSeq(lines, LAMBDA l : <<l[1], l[2]>> = k)
    IN  [i \in 1..Len(mine) |->
            <<Rat(mine[i][5], 2), mine[i][3], RInt(mine[i][4])>>]

TransitionTable(lines) ==
    [k \in {<<lines[i][1], lines[i][2]>> : i \in 1..Len(lines)} |->
        Triples(lines, k)]

parse_mdp(f) ==
    [S |-> IF "numStates" \in f.keys THEN f.numStates ELSE 0,
     A |-> IF "numActions" \in f.keys THEN f.numActions ELSE 0,
     transitions |-> TransitionTable(f.transition),
     terminal_states |-> f.end,
     mdptype |-> f.mdptype,
     gamma |-> IF "discount" \in f.keys THEN Rat(f.discount, 2) ELSE None]

\* ------------------------------------------------------------------------
\* The Bellman backup shared by the solvers
\* ------------------------------------------------------------------------

\* sum(p * (r + gamma * W[s_next]) for p, s_next, r in transitions[(s, a)])
Backup(m, W, s, a) ==
    LET ts == m.transitions[<<s, a>>]
        term == [i \in 1..Len(ts) |->
                    RMul(ts[i][1], RAdd(ts[i][3], RMul(m.gamma, W[ts[i][2]])))]
    IN  RSum(term, [i \in 1..Len(ts) |-> i])

\* The (s, a) the solving loops of Howard's iteration and of the LP visit:
\* s in range(S) not terminal, a in range(A), (s, a) in transitions.
NonTerminal(m) == {s \in 0..(m.S - 1) : s \notin m.terminal_states}
Recorded(m, s) == {a \in 0..(m.A - 1) : <<s, a>> \in DOMAIN m.transitions}

\* gamma * V[...] with gamma = None raises TypeError.
GammaTypeError(m) ==
    /\ m.gamma = None
    /\ \E s \in NonTerminal(m) : Recorded(m, s) # {}

\* ------------------------------------------------------------------------
\* policy_evaluation_exact
\* ------------------------------------------------------------------------

\* Row s of A_mat: the identity row, minus p at s_next for every triple of
\* (s, pol[s]) when s is not terminal.
ExactRow(m, pol, s) ==
    LET ts == IF s \notin m.terminal_states /\ <<s, pol[s]>> \in DOMAIN m.transitions
              THEN m.transitions[<<s, pol[s]>>] ELSE <<>>
        hits(j) == SelectSeq(ts, LAMBDA t : t[2] = j)
        mass(j) == RSum([i \in 1..Len(hits(j)) |-> hits(j)[i][1]],
                        [i \in 1..Len(hits(j)) |-> i])
    IN  [j \in 0..(m.S - 1) |-> RSub(IF j = s THEN RInt(1) ELSE Zero, mass(j))]

\* A variant of the right-hand side: the terminal states are not singled out.
ExactRhsEveryState(m, s) == RInt(-1)

ExactRhs(m, s) == IF s \in m.terminal_states THEN Zero ELSE RInt(-1)

policy_evaluation_exact(m, pol) ==
    Solve([s \in 0..(m.S - 1) |-> ExactRow(m, pol, s)],
          [s \in 0..(m.S - 1) |-> ExactRhs(m, s)], m.S)

\* ------------------------------------------------------------------------
\* Greedy action selection (Howard's Improve step and the LP's policy recovery)
\* ------------------------------------------------------------------------

\* A variant of the comparison: >= in place of >, so the last of several equal
\* actions wins.
BetterOrEqual(value, best_value) == RLeq(best_value, value)

\* if value > best_value
Better(value, best_value) == RLess(best_value, value)

\* for a in range(A): ... from action a on; best is None (best_value = -inf)
\* or <<best_a, best_value>>.
RECURSIVE BestScan(_, _, _, _, _)
BestScan(m, W, s, a, best) ==
    IF a >= m.A THEN best
    ELSE LET value == Backup(m, W, s, a)
             next == IF <<s, a>> \in DOMAIN m.transitions
                        /\ (best = None \/ Better(value, best[2]))
                     THEN <<a, value>> ELSE best
         IN  BestScan(m, W, s, a + 1, next)

\* The policy after one Improve pass over pol with the values W.
ImprovePolicy(m, W, pol) ==
    [s \in 0..(m.S - 1) |->
        IF s \in m.terminal_states THEN pol[s]
        ELSE LET best == BestScan(m, W, s, 0, None)
             IN  IF best # None /\ best[1] # pol[s] THEN best[1] ELSE pol[s]]

\* The policy the LP solver recovers from its values W.
RecoverPolicy(m, W) ==
    [s \in 0..(m.S - 1) |->
        IF s \in m.terminal_states THEN 0
        ELSE LET best == BestScan(m, W, s, 0, None)
             IN  IF best # None THEN best[1] ELSE 0]

\* ------------------------------------------------------------------------
\* linear_programming
\* ------------------------------------------------------------------------
(***************************************************************************)
(* The LP: minimise sum V_s subject to V_s = 0 (s terminal) and            *)
(* V_s >= sum p * (r + gamma * V_s') for every recorded (s, a).  The back  *)
(* end (CBC through pulp) is modelled by its contract.  With rewards < 0,  *)
(* 0 < gamma <= 1 and probabilities that sum to 1, as in every file of     *)
(* Init, V = 0 is feasible, and the LP has an optimum exactly when some    *)
(* basic solution that makes one constraint per non-terminal state tight   *)
(* is feasible; that solution is then the least feasible point and the     *)
(* unique optimum.  Otherwise the LP is unbounded: the status is not       *)
(* checked by the code, and the values read back are those of the feasible *)
(* point at which the back end stopped: 0 at the terminal states, any of   *)
(* LpLeftover elsewhere.                                                   *)
(***************************************************************************)

LpLeftover == {Zero, RInt(-1)}

\* One tight constraint V_s = sum p * (r + gamma * V_s') per non-terminal s.
LpRow(m, c, s) ==
    LET ts == IF s \in m.terminal_states THEN <<>> ELSE m.transitions[<<s, c[s]>>]
        hits(j) == SelectSeq(ts, LAMBDA t : t[2] = j)
        mass(j) == RSum([i \in 1..Len(hits(j)) |-> hits(j)[i][1]],
                        [i \in 1..Len(hits(j)) |-> i])
    IN  [j \in 0..(m.S - 1) |->
            RSub(IF j = s THEN RInt(1) ELSE Zero, RMul(m.gamma, mass(j)))]

LpRhs(m, c, s) ==
    LET ts == IF s \in m.terminal_states THEN <<>> ELSE m.transitions[<<s, c[s]>>]
    IN  RSum([i \in 1..Len(ts) |-> RMul(ts[i][1], ts[i][3])],
             [i \in 1..Len(ts) |-> i])

LpBasic(m, c) ==
    Solve([s \in 0..(m.S - 1) |-> LpRow(m, c, s)],
          [s \in 0..(m.S - 1) |-> LpRhs(m, c, s)], m.S)

\* prob += V_vars[s] == 0 ; prob += V_vars[s] >= lpSum(...)
LpFeasible(m, W) ==
    /\ \A s \in m.terminal_states \cap (0..(m.S - 1)) : W[s] = Zero
    /\ \A s \in NonTerminal(m) : \A a \in Recorded(m, s) :
          RLeq(Backup(m, W, s, a), W[s])

LpOptima(m) ==
    LET choices == {c \in [NonTerminal(m) -> 0..(m.A - 1)] :
                       \A s \in NonTerminal(m) : c[s] \in Recorded(m, s)}
        basic == {LpBasic(m, c) : c \in choices}
    IN  {b.V : b \in {x \in basic : ~x.singular /\ LpFeasible(m, x.V)}}

\* V_values, for every outcome of prob.solve.
LpValues(m) ==
    LET optima == LpOptima(m)
    IN  IF optima # {} THEN optima
        ELSE {W \in [0..(m.S - 1) -> LpLeftover] :
             \A s \in m.terminal_states \cap (0..(m.S - 1)) : W[s] = Zero}

linear_programming(m) ==
    {[V |-> W, policy |-> RecoverPolicy(m, W)] : W \in LpValues(m)}

\* ------------------------------------------------------------------------
\* policy_evaluation (iterative)
\* ------------------------------------------------------------------------

\* 1e-8 is 1 / TolDen.
TolDen == 100000000

\* x < 1e-8 for a rational x >= 0, without multiplying by TolDen.
BelowTol(x) == x[1] <= (x[2] - 1) \div TolDen

\* V_new of one pass of the loop.
Sweep(m, pol, W) ==
    [s \in 0..(m.S - 1) |->
        IF s \in m.terminal_states THEN Zero
        ELSE IF <<s, pol[s]>> \in DOMAIN m.transitions
             THEN Backup(m, W, s, pol[s]) ELSE Zero]

\* np.max(np.abs(V_new - V)) < 1e-8
Converged(m, W, Wnew) ==
    \A s \in 0..(m.S - 1) : BelowTol(RAbs(RSub(Wnew[s], W[s])))

\* gamma * V[s_next] with gamma = None raises TypeError in the first pass.
SweepTypeError(m, pol) ==
    /\ m.gamma = None
    /\ \E s \in NonTerminal(m) : <<s, pol[s]>> \in DOMAIN m.transitions

\* ------------------------------------------------------------------------
\* The inputs: MDP files, command lines
\* ------------------------------------------------------------------------

FileStates == 0..(NumStates - 1)
FileActions == {0, 1}

\* Every state but the last may have transition lines; the end line names the
\* last state or no state.
FilePairs == (FileStates \ {NumStates - 1}) \X FileActions
FileEnds == {{NumStates - 1}, {}}

\* The lines a file may hold for one (s, a): none, one line of probability 1,
\* or two lines of probability 1/2 to different states; rewards -1 .. -MaxCost.
Outcomes(k) ==
    {<<>>}
    \cup {<< <<k[1], k[2], t, -c, 2>> >> : t \in FileStates, c \in 1..MaxCost}
    \cup {<< <<k[1], k[2], t[1], -c, 1>>, <<k[1], k[2], t[2], -c, 1>> >> :
             t \in {u \in FileStates \X FileStates : u[1] < u[2]}, c \in 1..MaxCost}

\* The transition lines of a file: the lines of each (s, a) of ks, one (s, a)
\* after the other.
RECURSIVE LinesFor(_)
LinesFor(ks) ==
    IF ks = {} THEN {<<>>}
    ELSE LET k == CHOOSE x \in ks : \A y \in ks : x[1] < y[1] \/ (x[1] = y[1] /\ x[2] <= y[2])
         IN  {o \o rest : o \in Outcomes(k), rest \in LinesFor(ks \ {k})}

\* An MDP file: the header keywords it holds (at most one is missing), the
\* values on its lines, its transition lines, end line, kind and discount
\* (in halves).
Files ==
    [keys : {Keywords} \cup {Keywords \ {k} : k \in Keywords},
     numStates : {NumStates},
     numActions : {Cardinality(FileActions)},
     transition : LinesFor(FilePairs),
     end : FileEnds,
     mdptype : {"episodic", "continuing"},
     discount : {1, 2}]

\* A policy file: one action per state, 0 at the last state.
PolicyFiles ==
    {pol \in [FileStates -> FileActions] : pol[NumStates - 1] = 0}

CommandLines ==
    {[algorithm |-> alg, policy |-> None] : alg \in {"hpi", "lp"}}
    \cup {[algorithm |-> "hpi", policy |-> pol] : pol \in PolicyFiles}

\* ------------------------------------------------------------------------
\* The planner
\* ------------------------------------------------------------------------

Init ==
    /\ file \in Files
    /\ args \in CommandLines
    /\ pc = "start"
    /\ mdp = None
    /\ policy = <<>>
    /\ V = <<>>
    /\ Vprev = <<>>
    /\ improved = FALSE
    /\ tried = {}
    /\ calls = <<>>
    /\ iters = 0
    /\ out = <<>>
    /\ grid = <<>>
    /\ text = <<>>

\* A variant of the choice: --algorithm is looked at before the MDP kind.
ChooseSolverFlagFirst(m, a) ==
    IF a.policy # None THEN "policy_evaluation"
    ELSE IF a.algorithm = "hpi" THEN "Howard_policy_iteration_exact"
    ELSE "linear_programming"

\* main: the solver called for the parsed MDP m and the command line a.
ChooseSolver(m, a) ==
    IF a.policy # None THEN "policy_evaluation"
    ELSE IF m.mdptype = "episodic" THEN "linear_programming"
    ELSE IF a.algorithm = "hpi" THEN "Howard_policy_iteration_exact"
    ELSE "linear_programming"

\* main: parse the file and call the solver.
Main ==
    /\ pc = "start"
    /\ LET m == parse_mdp(file)
           solver == ChooseSolver(m, args)
       IN  /\ mdp' = m
           /\ calls' = <<solver>>
           /\ CASE solver = "policy_evaluation" ->
                     /\ policy' = args.policy
                     /\ V' = [s \in 0..(m.S - 1) |-> Zero]
                     /\ pc' = "sweep"
                [] solver = "linear_programming" ->
                     /\ pc' = "lp"
                     /\ UNCHANGED <<policy, V>>
                [] solver = "Howard_policy_iteration_exact" ->
                     /\ policy' = [s \in 0..(m.S - 1) |-> 0]
                     /\ pc' = "evaluate"
                     /\ UNCHANGED V
    /\ UNCHANGED <<file, args, Vprev, improved, tried, iters, out, grid, text>>

\* A variant of the Evaluate phase: the LinAlgError is not caught.
EvaluateUncaught ==
    /\ pc = "evaluate"
    /\ LET r == policy_evaluation_exact(mdp, policy)
       IN  IF r.singular
           THEN /\ pc' = "error"
                /\ UNCHANGED <<V, Vprev, tried>>
           ELSE /\ V' = r.V
                /\ tried' = tried \cup {policy}
                /\ Vprev' = V
                /\ pc' = "improve"
    /\ UNCHANGED <<file, args, mdp, policy, improved, calls, iters, out, grid, text>>

\* Howard_policy_iteration_exact, the Evaluate phase: exact evaluation of the
\* current policy; a singular system hands the solve to linear_programming.
Evaluate ==
    /\ pc = "evaluate"
    /\ LET r == policy_evaluation_exact(mdp, policy)
       IN  IF r.singular
           THEN /\ calls' = Append(calls, "linear_programming")
                /\ pc' = "lp"
                /\ UNCHANGED <<V, Vprev, tried>>
           ELSE /\ V' = r.V
                /\ tried' = tried \cup {policy}
                /\ Vprev' = V
                /\ pc' = "improve"
                /\ UNCHANGED calls
    /\ UNCHANGED <<file, args, mdp, policy, improved, iters, out, grid, text>>

\* Howard_policy_iteration_exact, the Improve phase.
Improve ==
    /\ pc = "improve"
    /\ IF GammaTypeError(mdp)
       THEN /\ pc' = "error"
            /\ UNCHANGED <<policy, improved>>
       ELSE LET new == ImprovePolicy(mdp, V, policy)
            IN  /\ policy' = new
                /\ improved' = TRUE
                /\ pc' = IF new = policy THEN "print" ELSE "evaluate"
    /\ UNCHANGED <<file, args, mdp, V, Vprev, tried, calls, iters, out, grid, text>>

\* linear_programming, called by main or by the singular-system fallback.
LinearProgramming ==
    /\ pc = "lp"
    /\ IF GammaTypeError(mdp)
       THEN /\ pc' = "error"
            /\ UNCHANGED <<V, policy>>
       ELSE \E r \in linear_programming(mdp) :
                /\ V' = r.V
                /\ policy' = r.policy
                /\ pc' = "print"
    /\ UNCHANGED <<file, args, mdp, Vprev, improved, tried, calls, iters, out, grid, text>>

\* policy_evaluation: one pass of its loop.  np.max of an empty array (S = 0)
\* raises ValueError.
PolicySweep ==
    /\ pc = "sweep"
    /\ iters < MaxIter
    /\ IF SweepTypeError(mdp, policy) \/ mdp.S = 0
       THEN /\ pc' = "error"
            /\ UNCHANGED <<V, iters>>
       ELSE LET V_new == Sweep(mdp, policy, V)
            IN  IF Converged(mdp, V, V_new)
                THEN /\ pc' = "print"
                     /\ UNCHANGED <<V, iters>>
                ELSE /\ V' = V_new
                     /\ iters' = iters + 1
                     /\ pc' = "sweep"
    /\ UNCHANGED <<file, args, mdp, policy, Vprev, improved, tried, calls, out, grid, text>>

\* main: one line per state, the value and the action.
PrintResult ==
    /\ pc = "print"
    /\ out' = [i \in 1..mdp.S |-> <<V[i - 1], policy[i - 1]>>]
    /\ pc' = "done"
    /\ UNCHANGED <<file, args, mdp, policy, V, Vprev, improved, tried, calls, iters, grid, text>>

Next ==
    \/ Main
    \/ Evaluate
    \/ Improve
    \/ LinearProgramming
    \/ PolicySweep
    \/ PrintResult

Spec == Init /\ [][Next]_vars

\* ------------------------------------------------------------------------
\* The encoder (src/encoder.py)
\* ------------------------------------------------------------------------
(***************************************************************************)
(* A grid is a sequence of rows of equal length, a row a sequence of cell  *)
(* symbols; "." stands for every symbol the encoder does not single out    *)
(* (the empty cell, the agent's marker).  Positions are 0-based as in the  *)
(* code.  The emitted text is kept line kind by line kind; a transition    *)
(* line is <<s, a, s', reward, probability in tenths>>.                    *)
(***************************************************************************)

Symbols == {"W", "d", "k", "g", "."}

Rows(g) == Len(g)
Cols(g) == Len(g[1])
Cell(g, i, j) == g[i + 1][j + 1]

RECURSIVE Concat(_)
Concat(ss) == IF ss = <<>> THEN <<>> ELSE Head(ss) \o Concat(Tail(ss))

\* The keys of free_cells in insertion (row-major) order; free_cells[(i, j)]
\* is the position's index in it.
build_free_cells(g) ==
    SelectSeq([n \in 1..(Rows(g) * Cols(g)) |->
                  <<(n - 1) \div Cols(g), (n - 1) % Cols(g)>>],
              LAMBDA c : Cell(g, c[1], c[2]) # "W")

FreeIndex(g, i, j) ==
    LET fc == build_free_cells(g)
    IN  (CHOOSE n \in 1..Len(fc) : fc[n] = <<i, j>>) - 1

in_bounds(g, i, j) == 0 <= i /\ i < Rows(g) /\ 0 <= j /\ j < Cols(g)

traversable(g, i, j, has_key) ==
    /\ in_bounds(g, i, j)
    /\ Cell(g, i, j) # "W"
    /\ ~(Cell(g, i, j) = "d" /\ ~has_key)

\* 0: up, 1: right, 2: down, 3: left.
Dirs == << <<-1, 0>>, <<0, 1>>, <<1, 0>>, <<0, -1>> >>

\* A variant of the probabilities: the mass of the third step is dropped, not
\* added to the second, when two steps can be made.
SlideProbsDropped(max_possible) ==
    CASE max_possible = 1 -> <<10>>
      [] max_possible = 2 -> <<5, 3>>
      [] max_possible = 3 -> <<5, 3, 2>>

\* The probabilities (tenths) of sliding 1, 2, ... steps when max_possible
\* steps can be made.
SlideProbs(max_possible) ==
    CASE max_possible = 1 -> <<10>>
      [] max_possible = 2 -> <<5, 5>>
      [] max_possible = 3 -> <<5, 3, 2>>

get_sliding_outcomes(g, i, j, orient, has_key) ==
    LET di == Dirs[orient + 1][1]
        dj == Dirs[orient + 1][2]
        ok(d) == traversable(g, i + d * di, j + d * dj, has_key)
        max_possible == IF ~ok(1) THEN 0
                        ELSE IF ~ok(2) THEN 1
                        ELSE IF ~ok(3) THEN 2 ELSE 3
    IN  IF max_possible = 0 THEN << <<<<i, j>>, 10>> >>
        ELSE [d \in 1..max_possible |->
                 <<<<i + d * di, j + d * dj>>, SlideProbs(max_possible)[d]>>]

state_id(g, i, j, orient, key) == ((FreeIndex(g, i, j) * 4) + orient) * 2 + key

\* The transition lines of action a in state (i, j, orient, key).
ActionLines(g, i, j, orient, key, a) ==
    LET s == state_id(g, i, j, orient, key)
        turn(o, p) == <<s, a, state_id(g, i, j, o % 4, key), -1, p>>
    IN  CASE a = 0 ->
               LET outcomes == get_sliding_outcomes(g, i, j, orient, key = 1)
               IN  [n \in 1..Len(outcomes) |->
                      LET ni == outcomes[n][1][1]
                          nj == outcomes[n][1][2]
                          new_key == IF Cell(g, ni, nj) = "k" /\ key = 0
                                     THEN 1 ELSE key
                      IN  <<s, a, state_id(g, ni, nj, orient, new_key), -1,
                            outcomes[n][2]>>]
          [] a = 1 -> <<turn(orient - 1, 9), turn(orient + 2, 1)>>
          [] a = 2 -> <<turn(orient + 1, 9), turn(orient + 2, 1)>>
          [] a = 3 -> <<turn(orient + 2, 8), turn(orient - 1, 1), turn(orient + 1, 1)>>

\* The (orient, key) pairs in loop order.
OrientKeys == [n \in 1..8 |-> <<(n - 1) \div 2, (n - 1) % 2>>]

encode(g) ==
    LET fc == build_free_cells(g)
        goal(c) == Cell(g, c[1], c[2]) = "g"
        stateLines(c, ok) ==
            IF goal(c) THEN <<>>
            ELSE Concat([a \in 1..4 |-> ActionLines(g, c[1], c[2], ok[1], ok[2], a - 1)])
        cellLines(c) == Concat([n \in 1..8 |-> stateLines(c, OrientKeys[n])])
        cellTerms(c) ==
            IF goal(c)
            THEN [n \in 1..8 |-> state_id(g, c[1], c[2], OrientKeys[n][1], OrientKeys[n][2])]
            ELSE <<>>
    IN  [numStates |-> Len(fc) * 4 * 2,
         numActions |-> 4,
         transition |-> Concat([n \in 1..Len(fc) |-> cellLines(fc[n])]),
         end |-> Concat([n \in 1..Len(fc) |-> cellTerms(fc[n])]),
         mdptype |-> "episodic",
         discount |-> 10]

Grids ==
    UNION {[1..r -> [1..c -> Symbols]] :
              <<r, c>> \in {x \in (1..MaxRows) \X (1..MaxCols) : x[1] * x[2] <= MaxCells}}

InitEnc ==
    /\ grid \in Grids
    /\ text = <<>>
    /\ file = <<>>
    /\ args = <<>>
    /\ pc = "encoder"
    /\ mdp = None
    /\ policy = <<>>
    /\ V = <<>>
    /\ Vprev = <<>>
    /\ improved = FALSE
    /\ tried = {}
    /\ calls = <<>>
    /\ iters = 0
    /\ out = <<>>

\* encoder.py main: encode the grid and print the MDP text.
Encode ==
    /\ pc = "encoder"
    /\ text = <<>>
    /\ text' = encode(grid)
    /\ UNCHANGED <<grid, file, args, pc, mdp, policy, V, Vprev, improved, tried, calls, iters, out>>

NextEnc == Encode

SpecEnc == InitEnc /\ [][NextEnc]_vars

\* ------------------------------------------------------------------------
\* Properties
\* ------------------------------------------------------------------------

Hpi == "Howard_policy_iteration_exact"
Complete(f) == f.keys = Keywords
Finished == pc \in {"print", "done"}

\* x <= 1e-6 for a rational x >= 0.
Within6(x) == x[1] <= x[2] \div 1000000

\* The file has its whole header, names a terminal state, and records every
\* action at every non-terminal state.
WellFormed ==
    /\ Complete(file)
    /\ file.end # {}
    /\ \A s \in NonTerminal(mdp) : Recorded(mdp, s) = 0..(mdp.A - 1)

\* Every transition line of the file has reward -1.
UnitCost == \A i \in 1..Len(file.transition) : file.transition[i][4] = -1

\* A well-formed continuing MDP with a discount below 1 and rewards -1.
WellFormedContinuing ==
    /\ WellFormed
    /\ UnitCost
    /\ file.mdptype = "continuing"
    /\ file.discount = 1

\* C1: on a well-formed continuing MDP (discount 1/2, rewards -1) the value function Howard's policy
\* iteration returns is within 1e-6, at every state, of the one the LP solver
\* returns for the same MDP.
C1_HpiAgreesWithLp ==
    (pc = "done" /\ calls = <<Hpi>> /\ WellFormedContinuing)
        => \A W \in LpValues(mdp) : \A s \in 0..(mdp.S - 1) :
              Within6(RAbs(RSub(V[s], W[s])))

C3_TerminalZero ==
    \A W \in {V, Vprev} : \A s \in DOMAIN W :
        s \in mdp.terminal_states => W[s] = Zero

\* C3's case: a second Evaluate phase of Howard's iteration has produced values,
\* nonzero at a non-terminal state, for an MDP with a terminal state.
C3_Witness ==
    /\ pc = "improve" /\ improved
    /\ \E s \in DOMAIN V : s \in mdp.terminal_states
    /\ \E s \in DOMAIN V : V[s] # Zero

\* C4: a file that lacks numStates, numActions or discount never leads to a
\* printed result: the run ends in a fatal error. Stated for the runs that
\* stay inside Howard's policy iteration, where the outcome does not depend on
\* what the LP solver leaves behind.
C4_MissingHeaderIsFatal ==
    (~Complete(file) /\ calls = <<Hpi>>) => ~(pc = "done" /\ out # <<>>)

\* C5: on a well-formed MDP the values the iterative evaluator returns for the
\* supplied policy are within 1e-6 of the exact evaluator's, whenever the exact
\* system is not singular.
C5_IterativeMatchesExact ==
    (Finished /\ calls = <<"policy_evaluation">> /\ WellFormed)
        => LET exact == policy_evaluation_exact(mdp, policy)
           IN  ~exact.singular
                  => \A s \in 0..(mdp.S - 1) :
                        Within6(RAbs(RSub(V[s], exact.V[s])))

\* C6: on a well-formed MDP, from one Evaluate phase of Howard's iteration to
\* the next, no state's value decreases.
C6_MonotoneValues ==
    (pc = "improve" /\ improved /\ WellFormed)
        => \A s \in 0..(mdp.S - 1) : RLeq(Vprev[s], V[s])

\* C7: on a well-formed MDP Howard's policy iteration does not cycle through
\* policies: it never comes to evaluate a policy it has evaluated before (the
\* loop is deterministic, so a policy met twice is met forever and the
\* iteration never stops).
C7_NoPolicyTwice ==
    (pc = "evaluate" /\ WellFormed) => policy \notin tried

\* The policy pol is, with respect to the values W, what the greedy rule asks:
\* 0 at a terminal state and at a state without a recorded action, and
\* otherwise the lowest-indexed recorded action of maximal Q.
GreedyLowest(m, W, pol) ==
    \A s \in 0..(m.S - 1) :
        IF s \in m.terminal_states \/ Recorded(m, s) = {} THEN pol[s] = 0
        ELSE /\ pol[s] \in Recorded(m, s)
             /\ \A a \in Recorded(m, s) :
                   /\ RLeq(Backup(m, W, s, a), Backup(m, W, s, pol[s]))
                   /\ a < pol[s] => RLess(Backup(m, W, s, a), Backup(m, W, s, pol[s]))

\* The policy is the outcome of an Improve pass, or of the LP's policy
\* recovery, over the values V.
AfterGreedyStep ==
    /\ "policy_evaluation" \notin {calls[i] : i \in 1..Len(calls)}
    /\ \/ improved /\ pc \in {"evaluate", "lp", "print", "done"}
       \/ Finished

\* Once the LP solver has been entered from Howard's iteration: it has been
\* entered once, no Evaluate or Improve step is pending, the result is one the
\* LP solver gives for the same MDP, and the only error that can follow is the
\* LP solver's own.
C8_AfterFallback ==
    Len(calls) = 2 =>
        /\ calls = <<Hpi, "linear_programming">>
        /\ pc \in {"lp", "print", "done", "error"}
        /\ Finished => [V |-> V, policy |-> policy] \in linear_programming(mdp)
        /\ pc = "error" => GammaTypeError(mdp)

\* A step taken from an Evaluate phase whose system is singular enters the LP
\* solver and leaves the values and the policy alone.
C8_FallbackStep ==
    (pc = "evaluate" /\ policy_evaluation_exact(mdp, policy).singular)
        => (pc' = "lp" /\ calls' = <<Hpi, "linear_programming">>
            /\ V' = V /\ policy' = policy)

\* C8: when the exact evaluator meets a singular system, Howard's iteration
\* hands over to the LP solver at once; the LP solver is called once, no
\* Evaluate or Improve step follows, the pair returned is the LP solver's for
\* the same MDP, and the singularity is not surfaced as an error.
C8_SingularFallsBackOnce == []C8_AfterFallback /\ [][C8_FallbackStep]_vars

\* C8's case: a singular Evaluate phase after at least one Improve pass, and the
\* LP solver's result printed.
C8_Witness ==
    /\ calls = <<Hpi, "linear_programming">>
    /\ improved
    /\ pc = "done"
    /\ out # <<>>

\* C9: after an Improve pass and after the LP's policy recovery, every
\* non-terminal state with a recorded action has the lowest-indexed recorded
\* action of maximal Q; a state without one, and a terminal state, has action 0.
C9_GreedyLowestIndex ==
    AfterGreedyStep => GreedyLowest(mdp, V, policy)

\* C9's case: an Improve pass has changed the policy, and at a state where
\* both actions have the same Q the policy holds action 0.
C9_Witness ==
    /\ improved /\ pc = "evaluate" /\ Vprev # <<>>
    /\ \E s \in NonTerminal(mdp) :
          /\ Recorded(mdp, s) = {0, 1}
          /\ policy[s] = 0
          /\ Backup(mdp, V, s, 0) = Backup(mdp, V, s, 1)

\* The lines of the emitted text for (s, a).
LinesOf(t, s, a) == SelectSeq(t.transition, LAMBDA l : l[1] = s /\ l[2] = a)

RECURSIVE SumProb(_)
SumProb(ls) == IF ls = <<>> THEN 0 ELSE Head(ls)[5] + SumProb(Tail(ls))

\* C10: in the emitted MDP text every state of a free cell that is no goal has
\* lines for all 4 actions, each (s, a) with probabilities that sum to 1 and
\* next states within [0, numStates); every state of a goal cell has no line
\* and is on the end line; no other state is on the end line.
C10_EncodedMdpWellFormed ==
    text # <<>> =>
        LET fc == build_free_cells(grid)
            ends == {text.end[n] : n \in 1..Len(text.end)}
        IN  /\ text.numStates = 8 * Len(fc)
            /\ \A s \in 0..(text.numStates - 1) :
                  LET c == fc[(s \div 8) + 1]
                  IN  IF Cell(grid, c[1], c[2]) = "g"
                      THEN /\ s \in ends
                           /\ \A a \in 0..3 : LinesOf(text, s, a) = <<>>
                      ELSE /\ s \notin ends
                           /\ \A a \in 0..3 :
                                 /\ LinesOf(text, s, a) # <<>>
                                 /\ SumProb(LinesOf(text, s, a)) = 10
            /\ \A n \in 1..Len(text.transition) :
                  /\ text.transition[n][1] \in 0..(text.numStates - 1)
                  /\ text.transition[n][3] \in 0..(text.numStates - 1)
            /\ ends \subseteq 0..(text.numStates - 1)

\* C10's case: a grid with a goal cell, whose text has a slide of three steps.
C10_Witness ==
    /\ text # <<>>
    /\ text.end # <<>>
    /\ \E n \in 1..Len(text.transition) :
          text.transition[n][2] = 0 /\ text.transition[n][5] = 2

====
